---- MODULE Spec2Model ----
(***************************************************************************)
(* TinyNotes (app/main.py): an in-memory notes API with a token-bucket     *)
(* rate limiter per API key, idempotent note creation and a rolling-window *)
(* latency recorder.                                                       *)
(*                                                                         *)
(* Time.  time.time() is the wall clock: a float of seconds that usually   *)
(* advances and may step back when the clock is adjusted.  The model reads *)
(* it from the variable clock, an integer number of ticks, with            *)
(* TicksPerSec ticks to the second.  Token counts are kept in fixed point, *)
(* OneToken units to the token, and the tick is chosen so that the rate of *)
(* 10 tokens per second refills exactly one unit per tick.                 *)
(*                                                                         *)
(* Concurrency.  Requests are handled by Threads; a step is one stretch of *)
(* code between two lock operations, so that every interleaving the locks  *)
(* allow is a behaviour of the model.                                      *)
(***************************************************************************)
EXTENDS Integers, Sequences, FiniteSets, TLC

\* ------------------------------------------------------------- bounds
MaxRequests == 3        \* requests received in one behaviour of Spec
MaxClock == 1           \* Spec: the clock stays within T0 .. T0 + MaxClock
MaxClockMoves == 1      \* Spec, SpecFine, SpecBusy: times the clock changes
MaxRaces == 2           \* requests received in one behaviour of SpecFine
MaxBusy == 2            \* requests received in one behaviour of SpecBusy
MaxClockBusy == 2       \* SpecBusy: the clock stays within T0 .. T0 + MaxClockBusy
MaxLocks == 2            \* requests received in one behaviour of SpecLocks
MaxChecks == 23         \* rate_limit calls in one behaviour of SpecRL
MaxOther == 2           \* SpecRL: calls with a key other than dev-key
MaxClockRL == 2         \* SpecRL: the clock stays within T0 .. T0 + MaxClockRL
MaxClockMovesRL == 2    \* SpecRL: times the clock changes
MaxClockRate == 2       \* SpecRate: the clock stays within T0 .. T0 + MaxClockRate
MaxClockMovesRate == 2  \* SpecRate: times the clock changes
MaxRecords == 1200      \* record_metric calls in one behaviour of SpecMetrics
MaxCold == 2            \* SpecMetrics: records of the other series

\* ------------------------------------------------- program constants
RATE_PER_SEC == 10      \* TokenBucket(rate_per_sec=10.0, ...)
BURST == 20             \* TokenBucket(..., burst=20)
WINDOW == 1000          \* len(arr) > 1000
OneToken == 2           \* the literal 1.0 of allow(), in fixed point
DEV_API_KEY == "dev-key"

TicksPerSec == RATE_PER_SEC * OneToken
MsPerTick == 1000 \div TicksPerSec
T0 == TicksPerSec - 1   \* the clock at start-up: one tick before a second ends

Threads == {"t1", "t2"}
\* the threads that take a request before t does: a request goes to the
\* first thread that is free
Before(t) == IF t = "t2" THEN {"t1"} ELSE {}
Free == "free"          \* a lock nobody holds
None == "None"          \* Python's None: a header that was not sent

ApiKeyHeaders == {None, "", DEV_API_KEY, "key-b"}
IdemHeaders == {None, "", "k1", "k2"}
Contents == {"hello", "world"}

Min(a, b) == IF a <= b THEN a ELSE b
Max(a, b) == IF a >= b THEN a ELSE b

VARIABLES
    clock,          \* what time.time() returns now, in ticks
    NOTES,          \* the list of notes
    IDEMPOTENCY,    \* scope -> key -> stored response
    STORE_LOCK,     \* owner of the RLock, or Free
    BUCKETS,        \* api key -> TokenBucket
    BUCKETS_LOCK,   \* owner, or Free
    DURS,           \* series name -> window of samples
    COUNTS,         \* series name -> all-time count
    METRICS_LOCK,   \* owner of the RLock, or Free
    pc,             \* thread -> where its request stands
    req,            \* thread -> the request it handles
    local,          \* thread -> locals of the request (start, key, dur)
    resp,           \* thread -> the response under construction / last sent
    nreq,           \* number of requests (or direct calls) received
    moves,          \* number of times the clock has changed
    returned,       \* history: idempotency key -> bodies sent with 201
    created,        \* history: the notes made, with their keys, in order
    hist,           \* history: series name -> every duration recorded
    rl              \* history: api key -> the admission checks of its bucket

storeVars == <<NOTES, IDEMPOTENCY, STORE_LOCK, created>>
bucketVars == <<BUCKETS, BUCKETS_LOCK>>
metricVars == <<DURS, COUNTS, METRICS_LOCK, hist>>
threadVars == <<pc, req, local, resp>>
clockVars == <<clock, moves>>
vars == <<clock, NOTES, IDEMPOTENCY, STORE_LOCK, BUCKETS, BUCKETS_LOCK,
          DURS, COUNTS, METRICS_LOCK, pc, req, local, resp, nreq, moves,
          returned, created, hist, rl>>

\* ------------------------------------------------------------ routes
HEALTHZ == [method |-> "GET", path |-> "/healthz"]
CREATE_NOTE == [method |-> "POST", path |-> "/notes"]
LIST_NOTES == [method |-> "GET", path |-> "/notes"]
METRICS == [method |-> "GET", path |-> "/metrics"]
Routes == {HEALTHZ, CREATE_NOTE, LIST_NOTES, METRICS}
\* a call of rate_limit() that comes from no route (SpecRL)
DIRECT == [method |-> "CALL", path |-> "rate_limit"]

\* The requests a client can send.  A request's route and X-API-Key header
\* are fixed when it is received; the Idempotency-Key header and the body
\* are read by create_note alone and are drawn where it reads them.
Requests == [route : Routes, apiKey : {None}]
RaceRequests == [route : {CREATE_NOTE}, apiKey : {None}]
BusyRequests == [route : Routes, apiKey : {None, "key-b"}]
NoteCreates == [idem : IdemHeaders, content : Contents]

NoRequest == [route |-> DIRECT, apiKey |-> None, idem |-> None, content |-> ""]
RequestOf(r) == [route |-> r.route, apiKey |-> r.apiKey, idem |-> None, content |-> ""]
NoNote == [id |-> 0, content |-> "", createdAt |-> 0]
NoLocal == [start |-> 0, key |-> "", dur |-> 0, note |-> NoNote, late |-> FALSE]
NoResponse == [status |-> 0, body |-> "", detail |-> ""]

\* ------------------------------------------------------- pure helpers
\* now(): int(time.time())
now(t) == t \div TicksPerSec

\* mutant: a lock that never makes anyone wait
LockFree_always(lock) == TRUE

\* threading.Lock / RLock: `with lock:` enters when nobody holds it
LockFree(lock) == lock = Free

\* TokenBucket.__init__
TokenBucket(rate_per_sec, burst, t) ==
    [rate |-> rate_per_sec, capacity |-> burst, tokens |-> burst * OneToken,
     last |-> t, lock |-> Free]

\* elapsed * self.rate, in token units
Refill(b, elapsed) == (elapsed * b.rate * OneToken) \div TicksPerSec

\* mutant: exactly one token is not enough
allow_strict(b, t) ==
    LET elapsed == t - b.last
        tokens == Min(b.capacity * OneToken, b.tokens + Refill(b, elapsed))
    IN  IF tokens > OneToken
        THEN [bucket |-> [b EXCEPT !.last = t, !.tokens = tokens - OneToken], ok |-> TRUE]
        ELSE [bucket |-> [b EXCEPT !.last = t, !.tokens = tokens], ok |-> FALSE]

\* mutant: any positive fraction of a token admits
allow_fraction(b, t) ==
    LET elapsed == t - b.last
        tokens == Min(b.capacity * OneToken, b.tokens + Refill(b, elapsed))
    IN  IF tokens > 0
        THEN [bucket |-> [b EXCEPT !.last = t, !.tokens = tokens - OneToken], ok |-> TRUE]
        ELSE [bucket |-> [b EXCEPT !.last = t, !.tokens = tokens], ok |-> FALSE]

\* TokenBucket.allow, the body under self.lock, at clock reading t
allow(b, t) ==
    LET elapsed == t - b.last
        tokens == Min(b.capacity * OneToken, b.tokens + Refill(b, elapsed))
    IN  IF tokens >= OneToken
        THEN [bucket |-> [b EXCEPT !.last = t, !.tokens = tokens - OneToken], ok |-> TRUE]
        ELSE [bucket |-> [b EXCEPT !.last = t, !.tokens = tokens], ok |-> FALSE]

\* mutant: the header is the key, present or not
ResolveKey_raw(x_api_key) == x_api_key

\* key = x_api_key or DEV_API_KEY
ResolveKey(x_api_key) ==
    IF x_api_key = None \/ x_api_key = "" THEN DEV_API_KEY ELSE x_api_key

\* rate_limit, the body under BUCKETS_LOCK: BUCKETS.get(key), else a new bucket
LookupBucket(buckets, key, t) ==
    IF key \in DOMAIN buckets
    THEN buckets
    ELSE [k \in DOMAIN buckets \cup {key} |->
            IF k = key THEN TokenBucket(RATE_PER_SEC, BURST, t) ELSE buckets[k]]

\* record_metric without the trim of the window
record_metric_unbounded(durs, counts, name, dur_ms) ==
    LET arr0 == IF name \in DOMAIN durs THEN durs[name] ELSE <<>>
        cnt == IF name \in DOMAIN counts THEN counts[name] ELSE 0
    IN  [durs |-> [n \in DOMAIN durs \cup {name} |->
                      IF n = name THEN Append(arr0, dur_ms) ELSE durs[n]],
         counts |-> [n \in DOMAIN counts \cup {name} |->
                        IF n = name THEN cnt + 1 ELSE counts[n]]]

\* record_metric dropping the newest sample of a full window
record_metric_newest(durs, counts, name, dur_ms) ==
    LET arr0 == IF name \in DOMAIN durs THEN durs[name] ELSE <<>>
        arr1 == Append(arr0, dur_ms)
        arr2 == IF Len(arr1) > WINDOW THEN SubSeq(arr1, 1, WINDOW) ELSE arr1
        cnt == IF name \in DOMAIN counts THEN counts[name] ELSE 0
    IN  [durs |-> [n \in DOMAIN durs \cup {name} |-> IF n = name THEN arr2 ELSE durs[n]],
         counts |-> [n \in DOMAIN counts \cup {name} |->
                        IF n = name THEN cnt + 1 ELSE counts[n]]]

\* record_metric, the body under METRICS_LOCK
record_metric(durs, counts, name, dur_ms) ==
    LET arr0 == IF name \in DOMAIN durs THEN durs[name] ELSE <<>>
        arr1 == Append(arr0, dur_ms)
        arr2 == IF Len(arr1) > WINDOW
                THEN SubSeq(arr1, Len(arr1) - WINDOW + 1, Len(arr1))
                ELSE arr1
        cnt == IF name \in DOMAIN counts THEN counts[name] ELSE 0
    IN  [durs |-> [n \in DOMAIN durs \cup {name} |-> IF n = name THEN arr2 ELSE durs[n]],
         counts |-> [n \in DOMAIN counts \cup {name} |->
                        IF n = name THEN cnt + 1 ELSE counts[n]]]

\* sorted(arr)
sorted(arr) == SortSeq(arr, LAMBDA a, b : a < b)

\* Python's round() of the float 0.95 * n.  The double nearest to 0.95 is
\* 0.95 - 0.4 * 2^-53; its product with n <= 2^20 is within 0.42 ulp of
\* 19n/20, so the product is exactly the half-integer when 19n/20 is one,
\* and lies on the same side of every half-integer as 19n/20 otherwise.
\* round() on a float rounds half to even.
Round95(n) ==
    LET q == (19 * n) \div 20
        r == (19 * n) % 20
    IN  IF r < 10 THEN q
        ELSE IF r > 10 THEN q + 1
        ELSE IF q % 2 = 0 THEN q ELSE q + 1

\* p95(arr); 0.0 is 0
p95(arr) ==
    IF arr = <<>> THEN 0
    ELSE LET s == sorted(arr)
             idx == Max(0, Round95(Len(s)) - 1)
         IN  s[idx + 1]

\* mutant: the series is named by the path alone
SeriesName_path(route) == route.path

\* the series name f"{request.method} {path}"
SeriesName(route) == route.method \o " " \o route.path

\* mutant: the store is never consulted
HasSaved_never(idem, key) == FALSE

\* saved = IDEMPOTENCY.get("create_note", {}).get(idem_key); `if saved:`
HasSaved(idem, key) ==
    "create_note" \in DOMAIN idem /\ key \in DOMAIN idem["create_note"]

\* mutant: the replay answers with an empty note
Saved_blank(idem, key) == NoNote

\* the record that the lookup found
Saved(idem, key) == idem["create_note"][key]

\* IDEMPOTENCY.setdefault("create_note", {})[idem_key] = note.model_dump()
StoreSaved(idem, key, note) ==
    LET part == IF "create_note" \in DOMAIN idem THEN idem["create_note"] ELSE <<>>
        part1 == [k \in DOMAIN part \cup {key} |-> IF k = key THEN note ELSE part[k]]
    IN  [s \in DOMAIN idem \cup {"create_note"} |->
            IF s = "create_note" THEN part1 ELSE idem[s]]

\* NoteOut(id=str(uuid.uuid4())[:8], content=body.content, createdAt=now());
\* uuid4 is taken never to repeat: the n-th note made gets the id n
NoteOut(notes, content, t) ==
    [id |-> Len(notes) + 1, content |-> content, createdAt |-> now(t)]

\* mutant: the note is put in front
AppendNote_front(notes, note) == <<note>> \o notes

\* NOTES.append(note)
AppendNote(notes, note) == Append(notes, note)

\* list_notes, the body under STORE_LOCK: `return NOTES`
list_notes(notes) == notes

\* metrics, the body under METRICS_LOCK (p95_ms before its rounding to 2 places)
metrics(durs, counts) ==
    [k \in DOMAIN durs |->
        [count |-> IF k \in DOMAIN counts THEN counts[k] ELSE 0, p95_ms |-> p95(durs[k])]]

\* -------------------------------------------------------------- state
\* the module's globals after import
Init ==
    /\ clock = T0
    /\ moves = 0
    /\ NOTES = <<>>
    /\ IDEMPOTENCY = <<>>
    /\ STORE_LOCK = Free
    /\ BUCKETS = <<>>
    /\ BUCKETS_LOCK = Free
    /\ DURS = <<>>
    /\ COUNTS = <<>>
    /\ METRICS_LOCK = Free
    /\ pc = [t \in Threads |-> "idle"]
    /\ req = [t \in Threads |-> NoRequest]
    /\ local = [t \in Threads |-> NoLocal]
    /\ resp = [t \in Threads |-> NoResponse]
    /\ nreq = 0
    /\ returned = [k \in IdemHeaders |-> {}]
    /\ created = <<>>
    /\ hist = <<>>
    /\ rl = <<>>

\* ------------------------------------------------------------ the clock
\* time passes: time.time() returns more than before
ClockAdvance(hi, max) ==
    /\ moves < max
    /\ moves' = moves + 1
    /\ \E c \in (clock + 1) .. hi : clock' = c
    /\ UNCHANGED <<storeVars, bucketVars, metricVars, threadVars, nreq, returned>>

\* the wall clock is set back: time.time() returns less than before
ClockStepBack(lo, max) ==
    /\ moves < max
    /\ moves' = moves + 1
    /\ \E c \in lo .. (clock - 1) : clock' = c
    /\ UNCHANGED <<storeVars, bucketVars, metricVars, threadVars, nreq, returned>>

\* --------------------------------------------------- request pipeline
\* timing_mw: start = time.time(); call_next(request)
Receive(t, r, max) ==
    /\ pc[t] = "idle"
    /\ \A u \in Before(t) : pc[u] # "idle"
    /\ nreq < max
    /\ nreq' = nreq + 1
    /\ req' = [req EXCEPT ![t] = RequestOf(r)]
    /\ local' = [local EXCEPT ![t] = [NoLocal EXCEPT !.start = clock]]
    /\ resp' = [resp EXCEPT ![t] = NoResponse]
    /\ pc' = [pc EXCEPT ![t] = "rl_acquire"]
    /\ UNCHANGED <<clockVars, storeVars, bucketVars, metricVars, returned, rl>>

\* rate_limit: key = x_api_key or DEV_API_KEY; with BUCKETS_LOCK (enter)
RateLimitAcquire(t) ==
    /\ pc[t] = "rl_acquire"
    /\ LockFree(BUCKETS_LOCK)
    /\ BUCKETS_LOCK' = t
    /\ local' = [local EXCEPT ![t].key = ResolveKey(req[t].apiKey)]
    /\ pc' = [pc EXCEPT ![t] = "rl_body"]
    /\ UNCHANGED <<clockVars, storeVars, BUCKETS, metricVars, req, resp, nreq, returned, rl>>

\* mutant: rate_limit keeps BUCKETS_LOCK while it goes on to bucket.allow()
RateLimitBody_hold(t) ==
    /\ pc[t] = "rl_body"
    /\ BUCKETS' = LookupBucket(BUCKETS, local[t].key, clock)
    /\ pc' = [pc EXCEPT ![t] = "allow_acquire"]
    /\ UNCHANGED <<clockVars, storeVars, BUCKETS_LOCK, metricVars, req, local, resp, nreq,
                   returned>>

\* rate_limit: the get-or-create under BUCKETS_LOCK, and its release
RateLimitBody(t) ==
    /\ pc[t] = "rl_body"
    /\ BUCKETS' = LookupBucket(BUCKETS, local[t].key, clock)
    /\ BUCKETS_LOCK' = Free
    /\ pc' = [pc EXCEPT ![t] = "allow_acquire"]
    /\ UNCHANGED <<clockVars, storeVars, metricVars, req, local, resp, nreq, returned>>

\* bucket.allow(): with self.lock (enter)
AllowAcquire(t) ==
    /\ pc[t] = "allow_acquire"
    /\ LockFree(BUCKETS[local[t].key].lock)
    /\ BUCKETS' = [BUCKETS EXCEPT ![local[t].key].lock = t]
    /\ pc' = [pc EXCEPT ![t] = "allow_body"]
    /\ UNCHANGED <<clockVars, storeVars, BUCKETS_LOCK, metricVars, req, local, resp, nreq,
                   returned, rl>>

\* bucket.allow(): refill and consume under self.lock, its release, and
\* rate_limit's `raise HTTPException(429)` or `return key`
AllowBody(t) ==
    LET key == local[t].key
        a == allow(BUCKETS[key], clock)
    IN  /\ pc[t] = "allow_body"
        /\ BUCKETS' = [BUCKETS EXCEPT ![key] = [a.bucket EXCEPT !.lock = Free]]
        /\ IF a.ok
           THEN /\ pc' = [pc EXCEPT ![t] = "endpoint"]
                /\ resp' = resp
           ELSE /\ pc' = [pc EXCEPT ![t] = "mw_finally"]
                /\ resp' = [resp EXCEPT ![t] =
                              [status |-> 429, body |-> "", detail |-> "rate_limit_exceeded"]]
        /\ UNCHANGED <<clockVars, storeVars, BUCKETS_LOCK, metricVars, req, local, nreq,
                       returned>>

\* healthz
Healthz(t) ==
    /\ pc[t] = "endpoint"
    /\ req[t].route = HEALTHZ
    /\ resp' = [resp EXCEPT ![t] = [status |-> 200, body |-> "ok", detail |-> ""]]
    /\ pc' = [pc EXCEPT ![t] = "mw_finally"]
    /\ UNCHANGED <<clockVars, storeVars, bucketVars, metricVars, req, local, nreq, returned, rl>>

\* mutant: the Idempotency-Key is not required
CreateNoteEnter_nocheck(t, c) ==
    /\ pc[t] = "endpoint"
    /\ req[t].route = CREATE_NOTE
    /\ req' = [req EXCEPT ![t].idem = c.idem, ![t].content = c.content]
    /\ LockFree(STORE_LOCK)
    /\ STORE_LOCK' = t
    /\ pc' = [pc EXCEPT ![t] = "store_check"]
    /\ resp' = resp
    /\ UNCHANGED <<clockVars, NOTES, IDEMPOTENCY, created, bucketVars, metricVars, local,
                   nreq, returned, rl>>

\* create_note(body, idem_key): `if not idem_key: raise HTTPException(400)`,
\* else with STORE_LOCK (enter)
CreateNoteEnter(t, c) ==
    /\ pc[t] = "endpoint"
    /\ req[t].route = CREATE_NOTE
    /\ req' = [req EXCEPT ![t].idem = c.idem, ![t].content = c.content]
    /\ IF c.idem \in {None, ""}
       THEN /\ resp' = [resp EXCEPT ![t] =
                         [status |-> 400, body |-> "",
                          detail |-> "missing Idempotency-Key header"]]
            /\ pc' = [pc EXCEPT ![t] = "mw_finally"]
            /\ STORE_LOCK' = STORE_LOCK
       ELSE /\ LockFree(STORE_LOCK)
            /\ STORE_LOCK' = t
            /\ pc' = [pc EXCEPT ![t] = "store_check"]
            /\ resp' = resp
    /\ UNCHANGED <<clockVars, NOTES, IDEMPOTENCY, created, bucketVars, metricVars, local,
                   nreq, returned, rl>>

\* create_note under STORE_LOCK: the lookup of saved, and `return saved`
\* (which releases the lock) when there is one
CreateNoteCheck(t) ==
    /\ pc[t] = "store_check"
    /\ IF HasSaved(IDEMPOTENCY, req[t].idem)
       THEN /\ resp' = [resp EXCEPT ![t] =
                         [status |-> 201, body |-> Saved(IDEMPOTENCY, req[t].idem),
                          detail |-> ""]]
            /\ STORE_LOCK' = Free
            /\ pc' = [pc EXCEPT ![t] = "mw_finally"]
       ELSE /\ resp' = resp
            /\ STORE_LOCK' = STORE_LOCK
            /\ pc' = [pc EXCEPT ![t] = "store_append"]
    /\ local' = [local EXCEPT ![t].late = returned[req[t].idem] # {}]
    /\ UNCHANGED <<clockVars, NOTES, IDEMPOTENCY, created, bucketVars, metricVars, req,
                   nreq, returned, rl>>

\* create_note under STORE_LOCK: note = NoteOut(...); NOTES.append(note)
CreateNoteAppend(t) ==
    LET note == NoteOut(NOTES, req[t].content, clock)
    IN  /\ pc[t] = "store_append"
        /\ NOTES' = AppendNote(NOTES, note)
        /\ created' = Append(created, [key |-> req[t].idem, note |-> note])
        /\ local' = [local EXCEPT ![t].note = note]
        /\ pc' = [pc EXCEPT ![t] = "store_save"]
        /\ UNCHANGED <<clockVars, IDEMPOTENCY, STORE_LOCK, bucketVars, metricVars, req, resp,
                       nreq, returned, rl>>

\* create_note under STORE_LOCK: the record is stored; `return note`
\* releases the lock
CreateNoteSave(t) ==
    /\ pc[t] = "store_save"
    /\ IDEMPOTENCY' = StoreSaved(IDEMPOTENCY, req[t].idem, local[t].note)
    /\ resp' = [resp EXCEPT ![t] = [status |-> 201, body |-> local[t].note, detail |-> ""]]
    /\ STORE_LOCK' = Free
    /\ pc' = [pc EXCEPT ![t] = "mw_finally"]
    /\ UNCHANGED <<clockVars, NOTES, created, bucketVars, metricVars, req, local, nreq,
                   returned, rl>>

\* list_notes: with STORE_LOCK (enter)
ListNotesEnter(t) ==
    /\ pc[t] = "endpoint"
    /\ req[t].route = LIST_NOTES
    /\ LockFree(STORE_LOCK)
    /\ STORE_LOCK' = t
    /\ pc' = [pc EXCEPT ![t] = "list_body"]
    /\ UNCHANGED <<clockVars, NOTES, IDEMPOTENCY, created, bucketVars, metricVars, req,
                   local, resp, nreq, returned, rl>>

\* list_notes: `return NOTES` under STORE_LOCK, and its release
ListNotesBody(t) ==
    /\ pc[t] = "list_body"
    /\ resp' = [resp EXCEPT ![t] = [status |-> 200, body |-> list_notes(NOTES), detail |-> ""]]
    /\ STORE_LOCK' = Free
    /\ pc' = [pc EXCEPT ![t] = "mw_finally"]
    /\ UNCHANGED <<clockVars, NOTES, IDEMPOTENCY, created, bucketVars, metricVars, req,
                   local, nreq, returned, rl>>

\* metrics: with METRICS_LOCK (enter)
MetricsAcquire(t) ==
    /\ pc[t] = "endpoint"
    /\ req[t].route = METRICS
    /\ LockFree(METRICS_LOCK)
    /\ METRICS_LOCK' = t
    /\ pc' = [pc EXCEPT ![t] = "metrics_body"]
    /\ UNCHANGED <<clockVars, storeVars, bucketVars, DURS, COUNTS, hist, req, local, resp,
                   nreq, returned, rl>>

\* metrics: the snapshot under METRICS_LOCK, and its release
MetricsBody(t) ==
    /\ pc[t] = "metrics_body"
    /\ resp' = [resp EXCEPT ![t] = [status |-> 200, body |-> metrics(DURS, COUNTS), detail |-> ""]]
    /\ METRICS_LOCK' = Free
    /\ pc' = [pc EXCEPT ![t] = "mw_finally"]
    /\ UNCHANGED <<clockVars, storeVars, bucketVars, DURS, COUNTS, hist, req, local, nreq,
                   returned, rl>>

\* timing_mw, finally: dur = (time.time() - start) * 1000.0
MwFinally(t) ==
    /\ pc[t] = "mw_finally"
    /\ req[t].route \in Routes
    /\ local' = [local EXCEPT ![t].dur = (clock - local[t].start) * MsPerTick]
    /\ pc' = [pc EXCEPT ![t] = "record_acquire"]
    /\ UNCHANGED <<clockVars, storeVars, bucketVars, metricVars, req, resp, nreq, returned, rl>>

\* record_metric: with METRICS_LOCK (enter)
RecordAcquire(t) ==
    /\ pc[t] = "record_acquire"
    /\ LockFree(METRICS_LOCK)
    /\ METRICS_LOCK' = t
    /\ pc' = [pc EXCEPT ![t] = "record_body"]
    /\ UNCHANGED <<clockVars, storeVars, bucketVars, DURS, COUNTS, hist, req, local, resp,
                   nreq, returned, rl>>

\* history: the durations recorded for each name, in order
Logged(h, name, dur_ms) ==
    [n \in DOMAIN h \cup {name} |->
        IF n = name THEN Append(IF n \in DOMAIN h THEN h[n] ELSE <<>>, dur_ms) ELSE h[n]]

\* history: the bodies sent with 201 for each idempotency key
Sent(r, q) ==
    IF q.status = 201 THEN [returned EXCEPT ![r.idem] = @ \cup {q.body}] ELSE returned

\* record_metric: the body under METRICS_LOCK and its release; the
\* middleware returns and the response is sent
RecordBody(t) ==
    LET name == SeriesName(req[t].route)
        m == record_metric(DURS, COUNTS, name, local[t].dur)
    IN  /\ pc[t] = "record_body"
        /\ DURS' = m.durs
        /\ COUNTS' = m.counts
        /\ hist' = Logged(hist, name, local[t].dur)
        /\ METRICS_LOCK' = Free
        /\ returned' = Sent(req[t], resp[t])
        /\ pc' = [pc EXCEPT ![t] = "idle"]
        /\ req' = [req EXCEPT ![t] = NoRequest]
        /\ local' = [local EXCEPT ![t] = NoLocal]
        /\ resp' = [resp EXCEPT ![t] = NoResponse]
        /\ UNCHANGED <<clockVars, storeVars, bucketVars, nreq, rl>>

\* A thread inside a with-block holds that block's lock.
InCritical(t) ==
    pc[t] \in {"rl_body", "allow_body", "store_check", "store_append", "store_save",
               "list_body", "metrics_body", "record_body"}

\* In Spec a with-block runs from its entry to its release without another
\* thread or the clock moving in between.  A block reads and writes only
\* what its lock protects and the clock, so every state that the unreduced
\* interleaving (SpecFine) reaches with no thread inside a block is reached
\* this way as well.
Undisturbed(t) == \A u \in Threads \ {t} : ~InCritical(u)
Quiet == \A u \in Threads : ~InCritical(u)

\* Spec: the four rate-limited routes, requests without X-API-Key
Next ==
    \/ \E t \in Threads, r \in Requests : Undisturbed(t) /\ Receive(t, r, MaxRequests)
    \/ \E t \in Threads : Undisturbed(t) /\ RateLimitAcquire(t)
    \/ \E t \in Threads : Undisturbed(t) /\ RateLimitBody(t) /\ UNCHANGED rl
    \/ \E t \in Threads : Undisturbed(t) /\ AllowAcquire(t)
    \/ \E t \in Threads : Undisturbed(t) /\ AllowBody(t) /\ UNCHANGED rl
    \/ \E t \in Threads : Undisturbed(t) /\ Healthz(t)
    \/ \E t \in Threads, c \in NoteCreates : Undisturbed(t) /\ CreateNoteEnter(t, c)
    \/ \E t \in Threads : Undisturbed(t) /\ CreateNoteCheck(t)
    \/ \E t \in Threads : Undisturbed(t) /\ CreateNoteAppend(t)
    \/ \E t \in Threads : Undisturbed(t) /\ CreateNoteSave(t)
    \/ \E t \in Threads : Undisturbed(t) /\ ListNotesEnter(t)
    \/ \E t \in Threads : Undisturbed(t) /\ ListNotesBody(t)
    \/ \E t \in Threads : Undisturbed(t) /\ MetricsAcquire(t)
    \/ \E t \in Threads : Undisturbed(t) /\ MetricsBody(t)
    \/ \E t \in Threads : Undisturbed(t) /\ MwFinally(t)
    \/ \E t \in Threads : Undisturbed(t) /\ RecordAcquire(t)
    \/ \E t \in Threads : Undisturbed(t) /\ RecordBody(t)
    \/ Quiet /\ ClockAdvance(T0 + MaxClock, MaxClockMoves) /\ UNCHANGED rl

Spec == Init /\ [][Next]_vars

\* SpecFine: POST /notes alone, every interleaving of the steps
NextFine ==
    \/ \E t \in Threads, r \in RaceRequests : Receive(t, r, MaxRaces)
    \/ \E t \in Threads : RateLimitAcquire(t)
    \/ \E t \in Threads : RateLimitBody(t) /\ UNCHANGED rl
    \/ \E t \in Threads : AllowAcquire(t)
    \/ \E t \in Threads : AllowBody(t) /\ UNCHANGED rl
    \/ \E t \in Threads, c \in NoteCreates : CreateNoteEnter(t, c)
    \/ \E t \in Threads : CreateNoteCheck(t)
    \/ \E t \in Threads : CreateNoteAppend(t)
    \/ \E t \in Threads : CreateNoteSave(t)
    \/ \E t \in Threads : MwFinally(t)
    \/ \E t \in Threads : RecordAcquire(t)
    \/ \E t \in Threads : RecordBody(t)
    \/ ClockAdvance(T0 + MaxClock, MaxClockMoves) /\ UNCHANGED rl

SpecFine == Init /\ [][NextFine]_vars

\* The state after n requests GET /healthz without X-API-Key were served one
\* after the other while the clock stood at T0; Warmed(BURST) leaves the
\* bucket of dev-key empty (SpecWarm reaches it).
Warmed(n) ==
    /\ clock = T0
    /\ moves = 0
    /\ NOTES = <<>>
    /\ IDEMPOTENCY = <<>>
    /\ STORE_LOCK = Free
    /\ BUCKETS = [k \in {DEV_API_KEY} |->
                    [TokenBucket(RATE_PER_SEC, BURST, T0) EXCEPT !.tokens = (BURST - n) * OneToken]]
    /\ BUCKETS_LOCK = Free
    /\ DURS = [s \in {SeriesName(HEALTHZ)} |-> [i \in 1 .. n |-> 0]]
    /\ COUNTS = [s \in {SeriesName(HEALTHZ)} |-> n]
    /\ METRICS_LOCK = Free
    /\ pc = [t \in Threads |-> "idle"]
    /\ req = [t \in Threads |-> NoRequest]
    /\ local = [t \in Threads |-> NoLocal]
    /\ resp = [t \in Threads |-> NoResponse]
    /\ returned = [k \in IdemHeaders |-> {}]
    /\ created = <<>>
    /\ hist = [s \in {SeriesName(HEALTHZ)} |-> [i \in 1 .. n |-> 0]]
    /\ rl = <<>>

\* SpecWarm: one thread serves GET /healthz, BURST times
NextWarm ==
    \/ Receive("t1", [route |-> HEALTHZ, apiKey |-> None], BURST)
    \/ RateLimitAcquire("t1")
    \/ RateLimitBody("t1") /\ UNCHANGED rl
    \/ AllowAcquire("t1")
    \/ AllowBody("t1") /\ UNCHANGED rl
    \/ Healthz("t1")
    \/ MwFinally("t1")
    \/ RecordAcquire("t1")
    \/ RecordBody("t1")

SpecWarm == Init /\ [][NextWarm]_vars
WarmedUp == Warmed(BURST) /\ nreq = BURST

\* SpecBusy: the four routes, with and without X-API-Key, from the state
\* in which the bucket of dev-key is empty
InitBusy == Warmed(BURST) /\ nreq = 0

NextBusy ==
    \/ \E t \in Threads, r \in BusyRequests : Undisturbed(t) /\ Receive(t, r, MaxBusy)
    \/ \E t \in Threads : Undisturbed(t) /\ RateLimitAcquire(t)
    \/ \E t \in Threads : Undisturbed(t) /\ RateLimitBody(t) /\ UNCHANGED rl
    \/ \E t \in Threads : Undisturbed(t) /\ AllowAcquire(t)
    \/ \E t \in Threads : Undisturbed(t) /\ AllowBody(t) /\ UNCHANGED rl
    \/ \E t \in Threads : Undisturbed(t) /\ Healthz(t)
    \/ \E t \in Threads, c \in NoteCreates : Undisturbed(t) /\ CreateNoteEnter(t, c)
    \/ \E t \in Threads : Undisturbed(t) /\ CreateNoteCheck(t)
    \/ \E t \in Threads : Undisturbed(t) /\ CreateNoteAppend(t)
    \/ \E t \in Threads : Undisturbed(t) /\ CreateNoteSave(t)
    \/ \E t \in Threads : Undisturbed(t) /\ ListNotesEnter(t)
    \/ \E t \in Threads : Undisturbed(t) /\ ListNotesBody(t)
    \/ \E t \in Threads : Undisturbed(t) /\ MetricsAcquire(t)
    \/ \E t \in Threads : Undisturbed(t) /\ MetricsBody(t)
    \/ \E t \in Threads : Undisturbed(t) /\ MwFinally(t)
    \/ \E t \in Threads : Undisturbed(t) /\ RecordAcquire(t)
    \/ \E t \in Threads : Undisturbed(t) /\ RecordBody(t)
    \/ Quiet /\ ClockAdvance(T0 + MaxClockBusy, MaxClockMoves) /\ UNCHANGED rl

SpecBusy == InitBusy /\ [][NextBusy]_vars

\* --------------------------------------------- rate_limit called alone
DirectCalls == [route : {DIRECT}, apiKey : ApiKeyHeaders]

\* rate_limit(x_api_key) is called
RateLimitCall(t, x) ==
    /\ pc[t] = "idle"
    /\ nreq < MaxChecks
    /\ (ResolveKey(x) # DEV_API_KEY /\ ResolveKey(x) \in DOMAIN rl)
          => rl[ResolveKey(x)].checks < MaxOther
    /\ nreq' = nreq + 1
    /\ req' = [req EXCEPT ![t] = RequestOf([route |-> DIRECT, apiKey |-> x])]
    /\ pc' = [pc EXCEPT ![t] = "rl_acquire"]
    /\ UNCHANGED <<clockVars, storeVars, bucketVars, metricVars, local, resp, returned, rl>>

\* rate_limit has returned the key or raised 429
RateLimitReturn(t) ==
    /\ pc[t] \in {"endpoint", "mw_finally"}
    /\ req[t].route = DIRECT
    /\ pc' = [pc EXCEPT ![t] = "idle"]
    /\ req' = [req EXCEPT ![t] = NoRequest]
    /\ local' = [local EXCEPT ![t] = NoLocal]
    /\ resp' = [resp EXCEPT ![t] = NoResponse]
    /\ UNCHANGED <<clockVars, storeVars, bucketVars, metricVars, nreq, returned, rl>>

\* history of a bucket: checks and admits count its calls of allow(); at is
\* the clock when it was made.  phase is "calm" while the clock has not
\* changed since, "rest" when after BURST + 1 calm checks the clock has
\* only advanced and no check was made, "done" after the check that ends
\* the rest, and "void" otherwise.
Born(key) ==
    IF key \in DOMAIN BUCKETS
    THEN rl
    ELSE [k \in DOMAIN rl \cup {key} |->
            IF k = key THEN [checks |-> 0, admits |-> 0, phase |-> "calm", at |-> clock]
            ELSE rl[k]]

Checked(key, ok) ==
    [rl EXCEPT ![key] =
        [@ EXCEPT !.checks = @ + 1,
                  !.admits = IF ok THEN @ + 1 ELSE @,
                  !.phase = IF @ = "calm" THEN "calm"
                            ELSE IF @ = "rest" THEN "done" ELSE "void"]]

Aged(c) ==
    [k \in DOMAIN rl |->
        [rl[k] EXCEPT !.phase =
            IF c > clock /\ (@ = "rest" \/ (@ = "calm" /\ rl[k].checks = BURST + 1))
            THEN "rest" ELSE "void"]]

\* SpecRL: rate_limit is called with any header, one call after the other
\* (the bodies of allow() on one bucket exclude each other and so form a
\* sequence in any case), while the clock advances and is set back
RLThreads == {"t1"}

NextRL ==
    \/ \E t \in RLThreads, x \in ApiKeyHeaders : Undisturbed(t) /\ RateLimitCall(t, x)
    \/ \E t \in RLThreads : Undisturbed(t) /\ RateLimitAcquire(t)
    \/ \E t \in RLThreads : Undisturbed(t) /\ RateLimitBody(t) /\ rl' = Born(local[t].key)
    \/ \E t \in RLThreads : Undisturbed(t) /\ AllowAcquire(t)
    \/ \E t \in RLThreads :
          Undisturbed(t) /\ AllowBody(t) /\ rl' = Checked(local[t].key, pc'[t] = "endpoint")
    \/ \E t \in RLThreads : Undisturbed(t) /\ RateLimitReturn(t)
    \/ Quiet /\ ClockAdvance(T0 + MaxClockRL, MaxClockMovesRL) /\ rl' = Aged(clock')
    \/ Quiet /\ ClockStepBack(T0, MaxClockMovesRL) /\ rl' = Aged(clock')

SpecRL == Init /\ [][NextRL]_vars

\* ------------------------------------------- record_metric called alone
\* the series that is recorded MaxRecords times, and the others
Hot == SeriesName(HEALTHZ)
ColdRoutes == {LIST_NOTES, METRICS}

\* the duration of the n-th record of the hot series: never sorted, and
\* any 101 consecutive ones differ
Feed(n) == (37 * n) % 101
ColdDur == 7

Recorded(name) == IF name \in DOMAIN hist THEN Len(hist[name]) ELSE 0

\* record_metric(name, dur_ms) is called
RecordCall(t, route, dur_ms) ==
    /\ pc[t] = "idle"
    /\ req' = [req EXCEPT ![t] = RequestOf([route |-> route, apiKey |-> None])]
    /\ local' = [local EXCEPT ![t].dur = dur_ms]
    /\ pc' = [pc EXCEPT ![t] = "record_acquire"]
    /\ UNCHANGED <<clockVars, storeVars, bucketVars, metricVars, resp, returned, rl>>

\* SpecMetrics: t1 records the hot series, one sample after the other,
\* while t2 records the other series; the two contend for METRICS_LOCK
\* under every interleaving.
NextMetrics ==
    \/ /\ Recorded(Hot) < MaxRecords
       /\ RecordCall("t1", HEALTHZ, Feed(Recorded(Hot) + 1))
       /\ UNCHANGED nreq
    \/ \E r \in ColdRoutes :
          /\ nreq < MaxCold
          /\ RecordCall("t2", r, ColdDur)
          /\ nreq' = nreq + 1
    \/ \E t \in Threads : RecordAcquire(t)
    \/ \E t \in Threads : RecordBody(t)

SpecMetrics == Init /\ [][NextMetrics]_vars

\* ----------------------------- rate_limit called alone, statement by statement
\* the headers of the concurrent calls: one key, and one other key
AdmitHeaders == {None, "key-b"}

\* BUCKETS[key] = bucket
StoreBucket(buckets, key, bucket) ==
    [k \in DOMAIN buckets \cup {key} |-> IF k = key THEN bucket ELSE buckets[k]]

\* mutant: the refill is paid twice
refill_twice(b, t) ==
    [b EXCEPT !.last = t,
              !.tokens = Min(b.capacity * OneToken, b.tokens + 2 * Refill(b, t - b.last))]

\* mutant: a refill keeps whole tokens only
refill_whole(b, t) ==
    [b EXCEPT !.last = t,
              !.tokens = (Min(b.capacity * OneToken, b.tokens + Refill(b, t - b.last))
                             \div OneToken) * OneToken]

\* allow(): t = time.time(); elapsed = t - self.last; self.last = t;
\* self.tokens = min(self.capacity, self.tokens + elapsed * self.rate)
refill(b, t) ==
    [b EXCEPT !.last = t,
              !.tokens = Min(b.capacity * OneToken, b.tokens + Refill(b, t - b.last))]

\* history: one more bucket was made for the key; times are the clock
\* readings of the admitted checks; base is the bucket as the last admitted
\* check (or __init__) left it, with the reading of the last check
\* rejected since
Made(key) ==
    [k \in DOMAIN rl \cup {key} |->
        IF k # key THEN rl[k]
        ELSE IF k \in DOMAIN rl THEN [rl[k] EXCEPT !.made = @ + 1]
        ELSE [checks |-> 0, admits |-> 0, phase |-> "calm", at |-> clock, made |-> 1,
              times |-> <<>>,
              base |-> [tokens |-> BURST * OneToken, last |-> clock, polled |-> clock]]]

\* rate_limit: bucket = BUCKETS.get(key)
RateLimitGet(t) ==
    /\ pc[t] = "rl_body"
    /\ pc' = [pc EXCEPT ![t] = IF local[t].key \in DOMAIN BUCKETS
                               THEN "rl_found" ELSE "rl_missing"]
    /\ UNCHANGED <<clockVars, storeVars, bucketVars, metricVars, req, local, resp, nreq,
                   returned, rl>>

\* rate_limit: bucket = TokenBucket(...); BUCKETS[key] = bucket; release
RateLimitCreate(t) ==
    /\ pc[t] = "rl_missing"
    /\ BUCKETS' = StoreBucket(BUCKETS, local[t].key, TokenBucket(RATE_PER_SEC, BURST, clock))
    /\ BUCKETS_LOCK' = Free
    /\ rl' = Made(local[t].key)
    /\ pc' = [pc EXCEPT ![t] = "allow_acquire"]
    /\ UNCHANGED <<clockVars, storeVars, metricVars, req, local, resp, nreq, returned>>

\* rate_limit: the bucket was there; release of BUCKETS_LOCK
RateLimitFound(t) ==
    /\ pc[t] = "rl_found"
    /\ BUCKETS_LOCK' = Free
    /\ pc' = [pc EXCEPT ![t] = "allow_acquire"]
    /\ UNCHANGED <<clockVars, storeVars, BUCKETS, metricVars, req, local, resp, nreq,
                   returned, rl>>

\* allow(): the refill
AllowRefill(t) ==
    /\ pc[t] = "allow_body"
    /\ BUCKETS' = [BUCKETS EXCEPT ![local[t].key] = refill(@, clock)]
    /\ pc' = [pc EXCEPT ![t] = "allow_test"]
    /\ UNCHANGED <<clockVars, storeVars, BUCKETS_LOCK, metricVars, req, local, resp, nreq,
                   returned, rl>>

\* allow(): if self.tokens >= 1.0; else return False, release, and
\* rate_limit raises 429
AllowTest(t) ==
    LET key == local[t].key
    IN  /\ pc[t] = "allow_test"
        /\ IF BUCKETS[key].tokens >= OneToken
           THEN /\ pc' = [pc EXCEPT ![t] = "allow_take"]
                /\ UNCHANGED <<BUCKETS, resp>>
           ELSE /\ pc' = [pc EXCEPT ![t] = "mw_finally"]
                /\ BUCKETS' = [BUCKETS EXCEPT ![key].lock = Free]
                /\ resp' = [resp EXCEPT ![t] =
                              [status |-> 429, body |-> "", detail |-> "rate_limit_exceeded"]]
        /\ UNCHANGED <<clockVars, storeVars, BUCKETS_LOCK, metricVars, req, local, nreq,
                       returned>>

\* allow(): self.tokens -= 1.0; return True, release, and rate_limit
\* returns the key
AllowTake(t) ==
    LET key == local[t].key
    IN  /\ pc[t] = "allow_take"
        /\ BUCKETS' = [BUCKETS EXCEPT ![key].tokens = @ - OneToken, ![key].lock = Free]
        /\ pc' = [pc EXCEPT ![t] = "endpoint"]
        /\ UNCHANGED <<clockVars, storeVars, BUCKETS_LOCK, metricVars, req, local, resp, nreq,
                       returned>>

\* history: the check of thread t has ended, admitted at the clock reading
\* that allow() took, or rejected, or it goes on (AllowTest to AllowTake)
Stamped(t) ==
    LET key == local[t].key
    IN  IF pc'[t] = "endpoint"
        THEN [rl EXCEPT ![key] = [@ EXCEPT !.checks = @ + 1, !.admits = @ + 1,
                                           !.times = Append(@, BUCKETS[key].last),
                                           !.base = [tokens |-> BUCKETS'[key].tokens,
                                                     last |-> BUCKETS[key].last,
                                                     polled |-> BUCKETS[key].last]]]
        ELSE IF pc'[t] = "mw_finally"
        THEN [rl EXCEPT ![key] = [@ EXCEPT !.checks = @ + 1,
                                           !.base.polled = BUCKETS[key].last]]
        ELSE rl

\* SpecAdmit: two threads call rate_limit again and again while the clock
\* stands still; a step is one statement, under every interleaving.
NextAdmit ==
    \/ \E t \in Threads, x \in AdmitHeaders : RateLimitCall(t, x)
    \/ \E t \in Threads : RateLimitAcquire(t)
    \/ \E t \in Threads : RateLimitGet(t)
    \/ \E t \in Threads : RateLimitCreate(t)
    \/ \E t \in Threads : RateLimitFound(t)
    \/ \E t \in Threads : AllowAcquire(t)
    \/ \E t \in Threads : AllowRefill(t)
    \/ \E t \in Threads : AllowTest(t) /\ rl' = Stamped(t)
    \/ \E t \in Threads : AllowTake(t) /\ rl' = Stamped(t)
    \/ \E t \in Threads : RateLimitReturn(t)

SpecAdmit == Init /\ [][NextAdmit]_vars

\* SpecRate: two threads call rate_limit without X-API-Key again and again,
\* statement by statement under every interleaving, while the clock
\* advances and never goes back
NextRate ==
    \/ \E t \in Threads : RateLimitCall(t, None)
    \/ \E t \in Threads : RateLimitAcquire(t)
    \/ \E t \in Threads : RateLimitGet(t)
    \/ \E t \in Threads : RateLimitCreate(t)
    \/ \E t \in Threads : RateLimitFound(t)
    \/ \E t \in Threads : AllowAcquire(t)
    \/ \E t \in Threads : AllowRefill(t)
    \/ \E t \in Threads : AllowTest(t) /\ rl' = Stamped(t)
    \/ \E t \in Threads : AllowTake(t) /\ rl' = Stamped(t)
    \/ \E t \in Threads : RateLimitReturn(t)
    \/ ClockAdvance(T0 + MaxClockRate, MaxClockMovesRate) /\ UNCHANGED rl

SpecRate == Init /\ [][NextRate]_vars

\* -------------------------------------------- create_note with a failure
\* create_note: a statement under STORE_LOCK raises (an InternalError: the
\* lookup, NoteOut(...), or the store of note.model_dump()); the with-block
\* releases STORE_LOCK and the exception leaves the handler.  Nothing in
\* create_note catches it or undoes what was written.
CreateNoteFail(t) ==
    /\ pc[t] \in {"store_check", "store_append", "store_save"}
    /\ STORE_LOCK' = Free
    /\ resp' = [resp EXCEPT ![t] = [status |-> 500, body |-> "", detail |-> "internal"]]
    /\ pc' = [pc EXCEPT ![t] = "mw_finally"]
    /\ UNCHANGED <<clockVars, NOTES, IDEMPOTENCY, created, bucketVars, metricVars, req, local,
                   nreq, returned, rl>>

\* SpecFail: POST /notes alone, every interleaving of the steps, any
\* statement under STORE_LOCK may raise
NextFail ==
    \/ NextFine
    \/ \E t \in Threads : CreateNoteFail(t)

SpecFail == Init /\ [][NextFail]_vars

\* ------------------------------------------- the pipeline, every step
\* the steps of the request that thread t handles
ThreadStep(t) ==
    \/ RateLimitAcquire(t)
    \/ RateLimitBody(t) /\ UNCHANGED rl
    \/ AllowAcquire(t)
    \/ AllowBody(t) /\ UNCHANGED rl
    \/ Healthz(t)
    \/ \E c \in NoteCreates : CreateNoteEnter(t, c)
    \/ CreateNoteCheck(t)
    \/ CreateNoteAppend(t)
    \/ CreateNoteSave(t)
    \/ ListNotesEnter(t)
    \/ ListNotesBody(t)
    \/ MetricsAcquire(t)
    \/ MetricsBody(t)
    \/ MwFinally(t)
    \/ RecordAcquire(t)
    \/ RecordBody(t)

\* SpecLocks: the four routes, with and without X-API-Key, every
\* interleaving of the steps between two lock operations.  A thread that
\* can run is run in the end (the scheduler is weakly fair); no request is
\* bound to arrive.
NextLocks ==
    \/ \E t \in Threads, r \in BusyRequests : Receive(t, r, MaxLocks)
    \/ \E t \in Threads : ThreadStep(t)

SpecLocks == Init /\ [][NextLocks]_vars /\ \A t \in Threads : WF_vars(ThreadStep(t))

\* ------------------------------------------------------------- claims
RealKeys == IdemHeaders \ {None, ""}
IsPrefix(s, u) == Len(s) <= Len(u) /\ SubSeq(u, 1, Len(s)) = s
Range(s) == {s[i] : i \in DOMAIN s}
\* the steps of thread t
StepOf(t) == pc'[t] # pc[t]
\* a record is stored for (create_note, k)
Stored(idem, k) == "create_note" \in DOMAIN idem /\ k \in DOMAIN idem["create_note"]

\* C1: once a POST /notes with Idempotency-Key k has returned 201 with body
\* B, a later POST /notes with k is answered 201 with B and appends no
\* note; all 201 bodies sent for k are one and the same; and a record
\* stored for (create_note, k) is never changed or removed.
C1_ReplayStep ==
    /\ \A k \in RealKeys :
         Stored(IDEMPOTENCY, k) =>
            /\ Stored(IDEMPOTENCY', k)
            /\ IDEMPOTENCY'["create_note"][k] = IDEMPOTENCY["create_note"][k]
    /\ \A k \in RealKeys : Cardinality(returned'[k]) <= 1
    /\ \A t \in Threads :
         (local'[t].late /\ StepOf(t) /\ pc[t] \in {"store_check", "store_append", "store_save"})
            => /\ NOTES' = NOTES
               /\ pc'[t] = "mw_finally"
               /\ resp'[t].status = 201
               /\ resp'[t].body \in returned[req[t].idem]
C1_IdempotentReplay == [][C1_ReplayStep]_vars

\* C1 happens: the note of k1 was sent, another note was made after it,
\* and a later POST with k1 and another content got the first note again.
C1_Witness ==
    \E t \in Threads :
        /\ local[t].late
        /\ pc[t] = "mw_finally"
        /\ resp[t].status = 201
        /\ resp[t].body \in returned[req[t].idem]
        /\ resp[t].body.content # req[t].content
        /\ resp[t].body.createdAt # now(clock)
        /\ Len(NOTES) = 2
        /\ resp[t].body = NOTES[1]

\* C6: a POST /notes with a missing or empty Idempotency-Key is answered
\* 400 'missing Idempotency-Key header', and no step of that request
\* changes NOTES or IDEMPOTENCY.
C6_MissingKeyStep ==
    \A t \in Threads :
        /\ (StepOf(t) /\ pc[t] = "endpoint" /\ req[t].route = CREATE_NOTE
                      /\ req'[t].idem \in {None, ""})
              => /\ NOTES' = NOTES
                 /\ IDEMPOTENCY' = IDEMPOTENCY
                 /\ pc'[t] = "mw_finally"
                 /\ resp'[t].status = 400
                 /\ resp'[t].detail = "missing Idempotency-Key header"
        /\ (StepOf(t) /\ resp[t].status = 400)
              => /\ NOTES' = NOTES
                 /\ IDEMPOTENCY' = IDEMPOTENCY
C6_MissingKey == [][C6_MissingKeyStep]_vars

\* C6 happens: a POST without key was answered 400 while a note exists.
C6_Witness ==
    \E t \in Threads :
        /\ req[t].route = CREATE_NOTE
        /\ req[t].idem \in {None, ""}
        /\ resp[t].status = 400
        /\ pc[t] = "record_acquire"
        /\ Len(NOTES) = 1

\* C10: NOTES only grows at its end, and GET /notes returns the notes made
\* so far in the order they were made, the note of every POST that has
\* returned 201 among them.
C10_AppendOnlyStep ==
    /\ IsPrefix(NOTES, NOTES')
    /\ \A t \in Threads :
         (pc[t] = "list_body" /\ StepOf(t))
            => /\ resp'[t].status = 200
               /\ resp'[t].body = [i \in DOMAIN created |-> created[i].note]
               /\ \A k \in RealKeys : returned[k] \subseteq Range(resp'[t].body)
C10_AppendOnly == [][C10_AppendOnlyStep]_vars

\* C10 happens: a list of two notes was returned after both were sent.
C10_Witness ==
    \E t \in Threads :
        /\ req[t].route = LIST_NOTES
        /\ pc[t] = "mw_finally"
        /\ Len(resp[t].body) = 2
        /\ returned["k1"] # {}
        /\ returned["k2"] # {}

\* C2: of the POST /notes requests that carry one Idempotency-Key, whatever
\* their content and however their steps interleave, exactly one makes a
\* note; NOTES holds one note for the key; the record stored is that note,
\* and every 201 body, sent or about to be sent, is that note.
C2_OneWinner ==
    /\ \A k \in RealKeys :
         LET made == {i \in DOMAIN created : created[i].key = k}
             answered == {t \in Threads : req[t].route = CREATE_NOTE /\ req[t].idem = k
                                          /\ resp[t].status = 201}
             bodies == returned[k] \cup {resp[t].body : t \in answered}
         IN  /\ Cardinality(made) <= 1
             /\ Stored(IDEMPOTENCY, k) =>
                   \E i \in made : IDEMPOTENCY["create_note"][k] = created[i].note
             /\ bodies # {} =>
                   /\ Stored(IDEMPOTENCY, k)
                   /\ bodies = {IDEMPOTENCY["create_note"][k]}
    /\ Len(NOTES) = Cardinality({created[i].key : i \in DOMAIN created})
    /\ NOTES = [i \in DOMAIN created |-> created[i].note]

\* C2 happens: two requests with one key and different contents are both
\* answered 201 before either is sent.
C2_Witness ==
    \E t, u \in Threads :
        /\ t # u
        /\ req[t].route = CREATE_NOTE /\ req[u].route = CREATE_NOTE
        /\ req[t].idem = req[u].idem
        /\ req[t].content # req[u].content
        /\ resp[t].status = 201 /\ resp[u].status = 201
        /\ resp[t].body = resp[u].body
        /\ returned[req[t].idem] = {}
        /\ Len(NOTES) = 1

\* C5: when the bucket of the request's API key holds less than one token
\* after the refill, the request, to whichever route, is answered 429
\* rate_limit_exceeded; its handler never runs (so neither the replay nor
\* the 400 of create_note can answer it) and none of its steps changes
\* NOTES or IDEMPOTENCY.
C5_RejectedStep ==
    \A t \in Threads :
        /\ (StepOf(t) /\ pc[t] = "allow_body")
              => LET b == BUCKETS[local[t].key]
                     gain == ((clock - b.last) * RATE_PER_SEC * OneToken) \div TicksPerSec
                     refilled == Min(BURST * OneToken, b.tokens + gain)
                 IN  refilled < OneToken
                        => /\ resp'[t].status = 429
                           /\ resp'[t].detail = "rate_limit_exceeded"
                           /\ pc'[t] = "mw_finally"
        /\ (StepOf(t) /\ (resp[t].status = 429 \/ resp'[t].status = 429))
              => /\ NOTES' = NOTES
                 /\ IDEMPOTENCY' = IDEMPOTENCY
                 /\ pc'[t] \in {"mw_finally", "record_acquire", "record_body", "idle"}
C5_Rejected == [][C5_RejectedStep]_vars

\* C5 happens: a POST /notes is answered 429 while a record is stored that
\* it could have replayed, the bucket holding half a token.
C5_Witness ==
    \E t \in Threads :
        /\ req[t].route = CREATE_NOTE
        /\ resp[t].status = 429
        /\ BUCKETS[local[t].key].tokens = 1
        /\ \E k \in RealKeys : Stored(IDEMPOTENCY, k)

\* 1/rate seconds, in ticks
RefillTime == TicksPerSec \div RATE_PER_SEC

\* C3: on a bucket made for a key not seen before, while the clock stands
\* still, the first BURST = 20 calls of allow() admit and the 21st rejects;
\* once the clock has then advanced by 1/rate = 0.1 s or more, the next
\* call admits.
C3_BurstStep ==
    \A t \in Threads :
        (StepOf(t) /\ pc[t] = "allow_body")
            => LET g == rl[local[t].key]
               IN  /\ (g.phase = "calm" /\ g.checks < BURST) => pc'[t] = "endpoint"
                   /\ (g.phase = "calm" /\ g.checks = BURST)
                         => pc'[t] = "mw_finally" /\ resp'[t].status = 429
                   /\ (g.phase = "rest" /\ clock - g.at >= RefillTime)
                         => pc'[t] = "endpoint"
C3_Burst == [][C3_BurstStep]_vars

\* C3 happens: 20 calls were admitted, the 21st was rejected, and after a
\* wait the 22nd was admitted.
C3_Witness ==
    \E k \in DOMAIN rl :
        rl[k].phase = "done" /\ rl[k].checks = BURST + 2 /\ rl[k].admits = BURST + 1

\* C4 as claimed: whenever a bucket's lock is free, 0 <= tokens <= capacity,
\* whatever the clock readings.  allow() adds a negative elapsed * rate
\* when the clock was set back, so tokens drops below 0.
C4_TokensInRange ==
    \A k \in DOMAIN BUCKETS :
        BUCKETS[k].lock = Free
            => /\ 0 <= BUCKETS[k].tokens
               /\ BUCKETS[k].tokens <= BUCKETS[k].capacity * OneToken

\* the last n elements of s
Last(s, n) == SubSeq(s, Len(s) - n + 1, Len(s))

\* C7: in every state and for every series name, the window holds at most
\* WINDOW = 1000 samples and the all-time count is at least the window's
\* length; no step removes a name's count or makes it smaller.
C7_WindowStep ==
    /\ DOMAIN DURS' = DOMAIN COUNTS'
    /\ \A n \in DOMAIN DURS' :
          /\ Len(DURS'[n]) <= WINDOW
          /\ COUNTS'[n] >= Len(DURS'[n])
    /\ \A n \in DOMAIN COUNTS : n \in DOMAIN COUNTS' /\ COUNTS'[n] >= COUNTS[n]
C7_WindowBounded == [][C7_WindowStep]_vars

\* C7 happens: a full window whose count has passed its length, next to
\* another series, while a thread waits for METRICS_LOCK held by the other.
C7_Witness ==
    /\ Hot \in DOMAIN DURS
    /\ Len(DURS[Hot]) = WINDOW
    /\ COUNTS[Hot] > WINDOW
    /\ DOMAIN DURS # {Hot}
    /\ pc["t1"] = "record_body"
    /\ pc["t2"] = "record_acquire"

\* C8: after n calls of record_metric for a name, the name's window is the
\* last min(n, WINDOW) recorded durations in the order they were recorded,
\* and its count is n.
C8_LastSamples ==
    /\ DOMAIN DURS = DOMAIN hist
    /\ DOMAIN COUNTS = DOMAIN hist
    /\ \A n \in DOMAIN hist :
          /\ COUNTS[n] = Len(hist[n])
          /\ DURS[n] = Last(hist[n], Min(Len(hist[n]), WINDOW))

\* C8 happens: 1200 records leave 1000 samples, the oldest 200 evicted.
C8_Witness ==
    /\ Hot \in DOMAIN DURS
    /\ COUNTS[Hot] = 1200
    /\ Len(DURS[Hot]) = 1000
    /\ DURS[Hot][1] = Feed(201)
    /\ DURS[Hot][1000] = Feed(1200)

\* rounding to the nearest integer, a half going up
RoundHalfUp95(n) == (19 * n + 10) \div 20

\* C9 as claimed: for every window, p95 is the element at index
\* max(0, round(0.95 * L) - 1) of the sorted window, 0 when the window is
\* empty, and 95 for the samples 1 .. 100.  Python's round() takes 0.95 * 30 = 28.5 to 28, so that p95 of
\* 30 samples is the element at index 27, and not at index 28.
C9_P95Index ==
    \A n \in DOMAIN DURS :
        LET s == sorted(DURS[n])
        IN  /\ p95(<<>>) = 0
            /\ p95([i \in 1 .. 100 |-> i]) = 95
            /\ p95(DURS[n]) = s[Max(0, RoundHalfUp95(Len(s)) - 1) + 1]
            /\ metrics(DURS, COUNTS)[n].p95_ms = p95(Last(hist[n], Min(Len(hist[n]), WINDOW)))

\* the request of thread t is in rate_limit or in bucket.allow()
InRateLimit(t) == pc[t] \in {"rl_acquire", "rl_body", "allow_acquire", "allow_body"}

\* timing_mw has taken its start time for the request of thread t
TimerStarted(t) == pc[t] # "idle" /\ local[t].start >= T0

\* C11 as claimed: the rate-limit check of a request runs before the
\* request's timer starts, and a request answered 429 passes neither the
\* timer's stop nor record_metric.  timing_mw wraps call_next(), in which
\* the dependency rate_limit runs: the timer starts first, and its finally
\* records a sample for the 429 as well.
C11_StepOrderStep ==
    \A t \in Threads :
        /\ (StepOf(t) /\ InRateLimit(t)) => ~TimerStarted(t)
        /\ (StepOf(t) /\ resp[t].status = 429)
              => /\ pc[t] \notin {"mw_finally", "record_acquire", "record_body"}
                 /\ DURS' = DURS
                 /\ COUNTS' = COUNTS
C11_StepOrder == [][C11_StepOrderStep]_vars

\* C11, its second half alone: no sample is recorded for a 429
C11_NoSampleFor429 ==
    [][\A t \in Threads : (StepOf(t) /\ resp[t].status = 429) => DURS' = DURS]_vars

\* C12: with the clock standing still, under every interleaving of the
\* statements of concurrent rate_limit calls, one bucket is made per key,
\* of the N checks completed on a key min(N, BURST) were admitted, and the
\* bucket holds BURST less the admitted ones whenever its lock is free.
C12_Linearizable ==
    /\ DOMAIN rl = DOMAIN BUCKETS
    /\ \A k \in DOMAIN rl :
          /\ rl[k].made = 1
          /\ rl[k].admits = Min(rl[k].checks, BURST)
          /\ BUCKETS[k].lock = Free
                => BUCKETS[k].tokens = (BURST - rl[k].admits) * OneToken

\* C12 happens: BURST + 1 checks on dev-key are done, BURST of them
\* admitted, while one thread is inside allow() and the other waits for
\* the same bucket's lock.
C12_Witness ==
    /\ DEV_API_KEY \in DOMAIN rl
    /\ rl[DEV_API_KEY].checks = BURST + 1
    /\ rl[DEV_API_KEY].admits = BURST
    /\ pc["t1"] = "allow_test"
    /\ pc["t2"] = "allow_acquire"
    /\ local["t1"].key = DEV_API_KEY
    /\ local["t2"].key = DEV_API_KEY

\* C13 as claimed: a clock reading earlier than the bucket's last gives
\* elapsed = 0, so that the refill of allow() never lowers tokens: after
\* a call tokens is at least what it was, less the token the call took if
\* it admitted.  allow() adds elapsed * rate with elapsed = t - last < 0.
C13_RefillStep ==
    \A t \in Threads :
        (StepOf(t) /\ pc[t] = "allow_body")
            => LET k == local[t].key
                   taken == IF pc'[t] = "endpoint" THEN OneToken ELSE 0
               IN  BUCKETS'[k].tokens + taken >= BUCKETS[k].tokens
C13_RefillNeverLowers == [][C13_RefillStep]_vars

\* C14 as claimed: whenever no handler is inside the critical section,
\* every note of NOTES has the record (create_note, key) that guards it,
\* that record is the note, and every record's note is in NOTES.
\* create_note appends the note and stores the record in two statements
\* and undoes nothing when the second raises.
C14_TogetherOrNotAtAll ==
    STORE_LOCK = Free
        => /\ \A i \in DOMAIN created :
                 /\ created[i].note \in Range(NOTES)
                 /\ Stored(IDEMPOTENCY, created[i].key)
                 /\ IDEMPOTENCY["create_note"][created[i].key] = created[i].note
           /\ \A k \in RealKeys :
                 Stored(IDEMPOTENCY, k) => IDEMPOTENCY["create_note"][k] \in Range(NOTES)
           /\ Len(NOTES) = Len(created)

\* the samples and the count of series n, none when it is not there
Series(d, n) == IF n \in DOMAIN d THEN d[n] ELSE <<>>
Count(c, n) == IF n \in DOMAIN c THEN c[n] ELSE 0

\* C15: a request that was admitted leaves the pipeline only through
\* record_metric, whatever its status; that step appends one sample to and
\* adds one to the count of the series "<method> <route template>",
\* changes no other series, and only then is the response sent; no other
\* step of a request changes a series.  The snapshot of GET /metrics
\* holds every series recorded so far with its count.
C15_SampleStep ==
    \A t \in Threads :
        LET name == req[t].route.method \o " " \o req[t].route.path
        IN  /\ (StepOf(t) /\ pc'[t] = "idle")
                  => /\ pc[t] = "record_body"
                     /\ resp[t].status \in {200, 201, 400}
                     /\ Series(DURS', name) = Append(Series(DURS, name), local[t].dur)
                     /\ Count(COUNTS', name) = Count(COUNTS, name) + 1
                     /\ \A m \in (DOMAIN DURS' \cup DOMAIN COUNTS') \ {name} :
                           /\ Series(DURS', m) = Series(DURS, m)
                           /\ Count(COUNTS', m) = Count(COUNTS, m)
                     /\ returned'[req[t].idem] = returned[req[t].idem] \cup
                           (IF resp[t].status = 201 THEN {resp[t].body} ELSE {})
            /\ (StepOf(t) /\ pc'[t] # "idle") => DURS' = DURS /\ COUNTS' = COUNTS
            /\ (StepOf(t) /\ pc[t] = "metrics_body")
                  => \A n \in DOMAIN hist :
                        /\ n \in DOMAIN resp'[t].body
                        /\ resp'[t].body[n].count = Len(hist[n])
                        /\ Len(hist[n]) >= 1
C15_OneSamplePerRequest == [][C15_SampleStep]_vars

\* C15 happens: after a GET /healthz and a POST /notes answered 400 were
\* completed, GET /metrics answers with both series, each counted once.
C15_Witness ==
    \E t \in Threads :
        /\ req[t].route = METRICS
        /\ resp[t].status = 200
        /\ DOMAIN resp[t].body = {"GET /healthz", "POST /notes"}
        /\ resp[t].body["GET /healthz"].count = 1
        /\ resp[t].body["POST /notes"].count = 1
        /\ returned = [k \in IdemHeaders |-> {}]

\* the locks that thread t holds
Holds(t) ==
    {k \in DOMAIN BUCKETS : BUCKETS[k].lock = t}
        \cup (IF BUCKETS_LOCK = t THEN {"BUCKETS_LOCK"} ELSE {})
        \cup (IF STORE_LOCK = t THEN {"STORE_LOCK"} ELSE {})
        \cup (IF METRICS_LOCK = t THEN {"METRICS_LOCK"} ELSE {})

\* thread t waits for a lock that another thread holds
Waits(t) ==
    \/ pc[t] = "rl_acquire" /\ BUCKETS_LOCK # Free
    \/ pc[t] = "allow_acquire" /\ BUCKETS[local[t].key].lock # Free
    \/ pc[t] = "endpoint" /\ req[t].route \in {CREATE_NOTE, LIST_NOTES} /\ STORE_LOCK # Free
    \/ pc[t] = "endpoint" /\ req[t].route = METRICS /\ METRICS_LOCK # Free
    \/ pc[t] = "record_acquire" /\ METRICS_LOCK # Free

C16_OneLock ==
    \A t \in Threads :
        /\ Cardinality(Holds(t)) <= 1
        /\ pc[t] \in {"allow_acquire", "allow_body"} => BUCKETS_LOCK # t
        /\ (pc[t] = "allow_acquire" /\ BUCKETS[local[t].key].lock # Free)
              => \E u \in Threads \ {t} :
                    /\ BUCKETS[local[t].key].lock = u
                    /\ local[u].key = local[t].key
        /\ Waits(t) => \E u \in Threads \ {t} : Holds(u) # {} /\ ~Waits(u)

\* C16: a thread holds at most one lock, and not BUCKETS_LOCK once it goes
\* for a bucket's lock; it waits for a bucket's lock only while a request
\* with the same key holds it; a waiting thread waits for one that does
\* not wait (no deadlock); and every request received is completed.
C16_LocksAndProgress ==
    /\ []C16_OneLock
    /\ \A t \in Threads : (pc[t] # "idle") ~> (pc[t] = "idle")

\* C16 happens: two requests with different keys are inside allow() at the
\* same time, each holding its own bucket's lock.
C16_Witness ==
    /\ pc["t1"] = "allow_body"
    /\ pc["t2"] = "allow_body"
    /\ local["t1"].key # local["t2"].key
    /\ Holds("t1") = {local["t1"].key}
    /\ Holds("t2") = {local["t2"].key}

\* the identity a header stands for
Identity(x) == IF x \in {None, ""} THEN "dev-key" ELSE x

\* C17: a call of rate_limit without X-API-Key, with an empty one, or with
\* X-API-Key: dev-key looks up, makes and charges the bucket of "dev-key";
\* a call with another key does so with that key's bucket; a step of
\* rate_limit leaves every other bucket as it was, and no bucket is kept
\* under an absent or empty key.
C17_FallbackStep ==
    \A t \in Threads :
        (StepOf(t) /\ pc[t] \in {"rl_body", "allow_acquire", "allow_body"})
            => LET id == Identity(req[t].apiKey)
               IN  /\ DOMAIN BUCKETS' = DOMAIN BUCKETS \cup {id}
                   /\ \A k \in DOMAIN BUCKETS \ {id} : BUCKETS'[k] = BUCKETS[k]
                   /\ DOMAIN BUCKETS' \subseteq {Identity(x) : x \in ApiKeyHeaders}
                   /\ (pc[t] = "allow_body" /\ pc'[t] = "endpoint")
                         => BUCKETS'[id].tokens < BUCKETS[id].tokens
                                + Refill(BUCKETS[id], clock - BUCKETS[id].last)
                            \/ BUCKETS'[id].tokens = (BURST - 1) * OneToken
C17_Fallback == [][C17_FallbackStep]_vars

\* C17 happens: calls without header, with an empty header and with
\* another key were admitted in one instant; the bucket of dev-key has paid
\* for the former and the other bucket for the latter alone.
C17_Witness ==
    /\ DOMAIN BUCKETS = {"dev-key", "key-b"}
    /\ \E t \in Threads : req[t].apiKey = "" /\ pc[t] = "endpoint"
    /\ rl["dev-key"].phase = "calm" /\ rl["key-b"].phase = "calm"
    /\ rl["dev-key"].checks = 3 /\ rl["key-b"].checks = 1
    /\ BUCKETS["dev-key"].tokens = (BURST - 3) * OneToken
    /\ BUCKETS["key-b"].tokens = (BURST - 1) * OneToken

\* C18: while the clock never goes back, the checks admitted on one key
\* at clock readings within any interval of T seconds number at most
\* BURST + RATE_PER_SEC * T: for any two admitted checks i <= j, those from
\* i to j are at most BURST + RATE_PER_SEC * (time between i and j).
C18_RateBound ==
    \A k \in DOMAIN rl :
        LET s == rl[k].times
        IN  \A i, j \in DOMAIN s :
                i <= j => /\ s[i] <= s[j]
                          /\ (j - i + 1) * TicksPerSec
                                <= BURST * TicksPerSec + RATE_PER_SEC * (s[j] - s[i])

\* C18 happens: 21 checks were admitted within 0.1 s, which is the bound,
\* and two more were rejected.
C18_Witness ==
    /\ DEV_API_KEY \in DOMAIN rl
    /\ rl[DEV_API_KEY].admits = BURST + 1
    /\ rl[DEV_API_KEY].checks = BURST + 3
    /\ rl[DEV_API_KEY].times[BURST + 1] - rl[DEV_API_KEY].times[1] = TicksPerSec \div RATE_PER_SEC

\* C19: while the clock never goes back, a check finds, after its refill,
\* the tokens that the last admitted check left plus the whole refill of
\* the time since then (capped at capacity), however many rejected checks
\* were made in between; a rejected check leaves these tokens and its own
\* clock reading in the bucket; and a check made 1/rate = 0.1 s or more
\* after the bucket was emptied is admitted.
C19_PollingStep ==
    \A t \in Threads :
        (StepOf(t) /\ pc[t] = "allow_test")
            => LET k == local[t].key
                   b == BUCKETS[k]
                   g == rl[k].base
                   earned == ((b.last - g.last) * RATE_PER_SEC * OneToken) \div TicksPerSec
               IN  /\ b.tokens = Min(BURST * OneToken, g.tokens + earned)
                   /\ pc'[t] = "mw_finally"
                         => /\ BUCKETS'[k].tokens = b.tokens
                            /\ BUCKETS'[k].last = b.last
                            /\ b.last >= g.polled
                   /\ (g.tokens = 0 /\ b.last - g.last >= TicksPerSec \div RATE_PER_SEC)
                         => pc'[t] = "allow_take"
C19_Polling == [][C19_PollingStep]_vars

\* C19 happens: a bucket was emptied, a check 0.05 s later was rejected,
\* and the check 0.1 s after the emptying is about to take a token.
C19_Witness ==
    \E t \in Threads :
        LET k == local[t].key
        IN  /\ pc[t] = "allow_take"
            /\ rl[k].base.tokens = 0
            /\ rl[k].base.polled - rl[k].base.last = 1
            /\ BUCKETS[k].last - rl[k].base.last = TicksPerSec \div RATE_PER_SEC
            /\ BUCKETS[k].tokens = OneToken

\* C20: an admitted POST /notes whose Idempotency-Key has a record is
\* answered 201 with the note first made for that key, whatever the
\* request's X-API-Key and content, and changes neither NOTES nor
\* IDEMPOTENCY.
C20_SharedStep ==
    \A t \in Threads :
        (StepOf(t) /\ pc[t] = "store_check" /\ Stored(IDEMPOTENCY, req[t].idem))
            => /\ resp'[t].status = 201
               /\ \E i \in DOMAIN created :
                     /\ created[i].key = req[t].idem
                     /\ \A j \in DOMAIN created : created[j].key = req[t].idem => i <= j
                     /\ resp'[t].body = created[i].note
               /\ NOTES' = NOTES
               /\ IDEMPOTENCY' = IDEMPOTENCY
               /\ created' = created
C20_SharedAcrossKeys == [][C20_SharedStep]_vars

\* C20 happens: of two requests, the one with X-API-Key: key-b made a
\* note; the other, without X-API-Key and with another content, is
\* answered with that note.
C20_Witness ==
    \E t \in Threads :
        /\ nreq = 2
        /\ req[t].route = CREATE_NOTE
        /\ req[t].apiKey = None
        /\ resp[t].status = 201
        /\ Len(NOTES) = 1
        /\ resp[t].body = NOTES[1]
        /\ resp[t].body.content # req[t].content
        /\ "key-b" \in DOMAIN BUCKETS
        /\ BUCKETS["key-b"].tokens = (BURST - 1) * OneToken
        /\ BUCKETS[DEV_API_KEY].tokens = 0

====
